---- MODULE Spec2Model ----
(***************************************************************************)
(* Model of the multisplice crate (src/src/lib.rs): a Multisplice holds    *)
(* an immutable source string and a vector of splices (range, value);      *)
(* splice / splice_range register a replacement, slice / slice_range /     *)
(* to_string render a window of the spliced string.                        *)
(*                                                                         *)
(* Strings are sequences of one-character strings.  Offsets are the        *)
(* 0-based byte offsets of the Rust code; source[a..b] is SubSeq(a+1, b).  *)
(* The sources are ASCII, so every offset is a char boundary.  A panic (a  *)
(* failed assert!, an out-of-range string index) is recorded in the        *)
(* outcome of the call and leaves the Multisplice untouched.               *)
(***************************************************************************)
EXTENDS Integers, Sequences, FiniteSets, TLC

\* ------------------------------------------------------------------------
\* Bounds and input sets
\* ------------------------------------------------------------------------

\* Largest number of splices the model stores.
MaxSplices == 2

\* Source strings the Multisplice is built from; the bytes are distinct so
\* that every offset of the source is recognisable in a render.
Sources == { <<"a", "b", "c", "d">> }

\* Replacement values.  The code never inspects a replacement, it only
\* appends it; a two-byte value is shorter than, as long as or longer than
\* the range it replaces, depending on the range.
Values == { <<"X", "Y">> }

\* Offsets passed to splice and slice: every offset of the source and one
\* past its length, so that out-of-range offsets occur.
Offsets(src) == 0 .. (Len(src) + 1)

\* Window starts passed to slice: the offsets and one more, so that a window
\* can start past an out-of-range end.
WindowStarts(src) == 0 .. (Len(src) + 2)

VARIABLES source, splices, call

vars == <<source, splices, call>>

\* ------------------------------------------------------------------------
\* Range bounds (std::ops::Bound) and their resolution
\* ------------------------------------------------------------------------

Included(n) == [kind |-> "Included", n |-> n]
Excluded(n) == [kind |-> "Excluded", n |-> n]
Unbounded == [kind |-> "Unbounded", n |-> 0]

get_start_bound(bound) ==
    CASE bound.kind = "Included" -> bound.n
      [] bound.kind = "Excluded" -> bound.n + 1
      [] bound.kind = "Unbounded" -> 0

get_end_bound(bound, unbounded) ==
    CASE bound.kind = "Included" -> bound.n + 1
      [] bound.kind = "Excluded" -> bound.n
      [] bound.kind = "Unbounded" -> unbounded

\* ------------------------------------------------------------------------
\* struct Splice { range: Range<usize>, value }
\* ------------------------------------------------------------------------

Splice(start, end, value) == [start |-> start, end |-> end, value |-> value]

\* ------------------------------------------------------------------------
\* splice_cow: the sorted insert
\* ------------------------------------------------------------------------

\* The condition of the assert!: the stored range contains `start`.
already_spliced_strict(range, start) == range.start < start /\ range.end > start

already_spliced(range, start) == range.start <= start /\ range.end > start

\* The condition that fixes the insertion point.
starts_after_flipped(range, start) == range.start < start

starts_after_or_at(range, start) == range.start >= start

starts_after_never(range, start) == FALSE

starts_after(range, start) == range.start > start

\* The for loop of splice_cow from index i on: the index to insert at
\* (0 for None), or a panic when the assert! fails first.
RECURSIVE insert_at(_, _, _)
insert_at(ss, start, i) ==
    IF i > Len(ss) THEN [panicked |-> FALSE, at |-> 0]
    ELSE IF already_spliced(ss[i], start) THEN [panicked |-> TRUE, at |-> 0]
    ELSE IF starts_after(ss[i], start) THEN [panicked |-> FALSE, at |-> i]
    ELSE insert_at(ss, start, i + 1)

\* Vec::insert(i, x) with a 1-based index.
VecInsert(ss, i, x) == SubSeq(ss, 1, i - 1) \o <<x>> \o SubSeq(ss, i, Len(ss))

splice_cow(ss, start, end, value) ==
    LET found == insert_at(ss, start, 1)
        splice == Splice(start, end, value)
    IN  IF found.panicked THEN [panicked |-> TRUE, splices |-> ss]
        ELSE IF found.at # 0
             THEN [panicked |-> FALSE, splices |-> VecInsert(ss, found.at, splice)]
             ELSE [panicked |-> FALSE, splices |-> Append(ss, splice)]

\* ------------------------------------------------------------------------
\* slice: the renderer
\* ------------------------------------------------------------------------

\* &source[from..to]: panics unless from <= to <= source.len().
str_index(src, from, to) ==
    IF from <= to /\ to <= Len(src)
    THEN [panicked |-> FALSE, text |-> SubSeq(src, from + 1, to)]
    ELSE [panicked |-> TRUE, text |-> <<>>]

\* The assert! at the head of slice.
end_in_bounds_unchecked(src, end) == TRUE

end_in_bounds(src, end) == end <= Len(src)

\* "ignore splices that are entirely contained in an earlier spliced range"
is_consumed(range, last) == range.end <= last

\* "ignore splices after the end of the source"
is_after_window_strict(range, end) == range.start > end

is_after_window(range, end) == range.start >= end

\* The untouched text before a splice is pushed only when the splice starts
\* at or after the cursor.
starts_at_or_after(range, last) == range.start >= last

\* The cursor after a splice was emitted.
next_last_start(range) == range.start

next_last(range) == range.end

Panic == [panicked |-> TRUE, text |-> <<>>, borrowed |-> FALSE]

\* The tail of slice after the loop.
slice_tail(src, end, last, result) ==
    IF end >= last
    THEN LET t == str_index(src, last, end)
         IN  IF t.panicked THEN Panic
             ELSE IF result = <<>>
                  THEN [panicked |-> FALSE, text |-> t.text, borrowed |-> TRUE]
                  ELSE [panicked |-> FALSE, text |-> result \o t.text,
                        borrowed |-> FALSE]
    ELSE [panicked |-> FALSE, text |-> result, borrowed |-> FALSE]

\* The for loop of slice from index i on, with cursor `last` and the
\* accumulated `result`, followed by the tail.
RECURSIVE slice_loop(_, _, _, _, _, _)
slice_loop(src, ss, end, i, last, result) ==
    IF i > Len(ss) THEN slice_tail(src, end, last, result)
    ELSE LET range == ss[i] IN
         IF is_consumed(range, last)
         THEN slice_loop(src, ss, end, i + 1, last, result)
         ELSE IF is_after_window(range, end)
         THEN slice_tail(src, end, last, result)
         ELSE IF starts_at_or_after(range, last)
         THEN LET t == str_index(src, last, range.start)
              IN  IF t.panicked THEN Panic
                  ELSE slice_loop(src, ss, end, i + 1, next_last(range),
                                  result \o t.text \o range.value)
         ELSE slice_loop(src, ss, end, i + 1, next_last(range),
                         result \o range.value)

slice(src, ss, start, end) ==
    IF ~end_in_bounds(src, end) THEN Panic
    ELSE slice_loop(src, ss, end, 1, start, <<>>)

slice_range(src, ss, sb, eb) ==
    slice(src, ss, get_start_bound(sb), get_end_bound(eb, Len(src)))

to_string(src, ss) == slice_range(src, ss, Unbounded, Unbounded).text

\* ------------------------------------------------------------------------
\* The state machine
\* ------------------------------------------------------------------------

\* The record of the last call: the operation as it reached splice_cow or
\* slice, its arguments and its outcome.
Call(op, start, end, value, panicked, text) ==
    [op |-> op, start |-> start, end |-> end, value |-> value,
     panicked |-> panicked, text |-> text]

\* Multisplice::new(source)
Init ==
    /\ source \in Sources
    /\ splices = <<>>
    /\ call = Call("new", 0, 0, <<>>, FALSE, <<>>)

\* The effect of a call that reached splice_cow(start, end, value).  An
\* accepted call is taken only while fewer than MaxSplices are stored.
DoSplice(start, end, value) ==
    LET r == splice_cow(splices, start, end, value)
    IN  /\ r.panicked \/ Len(splices) < MaxSplices
        /\ splices' = r.splices
        /\ call' = Call("splice", start, end, value, r.panicked, <<>>)
        /\ UNCHANGED source

\* The effect of a call that reached slice(start, end).
DoSlice(start, end) ==
    LET r == slice(source, splices, start, end)
    IN  /\ call' = Call("slice", start, end, <<>>, r.panicked, r.text)
        /\ UNCHANGED <<source, splices>>

\* splicer.splice(start, end, value), called with start <= end; the end may
\* lie one past the source.
SpliceOp ==
    \E start \in 0 .. Len(source), end \in Offsets(source), value \in Values :
        /\ start <= end
        /\ DoSplice(start, end, value)

\* The range bounds a caller passes to splice_range and slice_range: each
\* kind of std::ops::Bound.  (Excluded(1), Excluded(1)) resolves to the
\* inverted range 2..1.
BoundArgs == {1}

RangeBounds == {Unbounded} \cup {Included(n) : n \in BoundArgs}
                           \cup {Excluded(n) : n \in BoundArgs}

\* splicer.splice_range(range, value)
SpliceRangeOp ==
    \E sb \in RangeBounds, eb \in RangeBounds, value \in Values :
        DoSplice(get_start_bound(sb), get_end_bound(eb, Len(source)), value)

\* splicer.slice(start, end)
SliceOp ==
    \E start \in WindowStarts(source), end \in Offsets(source) :
        DoSlice(start, end)

\* splicer.slice_range(range)
SliceRangeOp ==
    \E sb \in RangeBounds, eb \in RangeBounds :
        DoSlice(get_start_bound(sb), get_end_bound(eb, Len(source)))

\* splicer.to_string()
ToStringOp ==
    DoSlice(get_start_bound(Unbounded), get_end_bound(Unbounded, Len(source)))

Next ==
    \/ SpliceOp
    \/ SpliceRangeOp
    \/ SliceOp
    \/ SliceRangeOp
    \/ ToStringOp

Spec == Init /\ [][Next]_vars

TypeOK ==
    /\ source \in Sources
    /\ Len(splices) <= MaxSplices
    /\ call.op \in {"new", "splice", "slice"}

\* ------------------------------------------------------------------------
\* Vocabulary of the properties
\* ------------------------------------------------------------------------

\* The edit the last call passed to splice_cow.
NewEdit(c) == Splice(c.start, c.end, c.value)

\* The last call was to_string(): slice(0, source.len()).
IsToString == call.op = "slice" /\ call.start = 0 /\ call.end = Len(source)

\* 0 <= start <= end <= source.len()
InBounds(e) == e.start <= e.end /\ e.end <= Len(source)

NonEmpty(e) == e.start < e.end

\* e's range [start, end) contains offset x.
Covers(e, x) == e.start <= x /\ x < e.end

\* Two ranges share an offset.
ShareOffset(a, b) == \E x \in Offsets(source) : Covers(a, x) /\ Covers(b, x)

AllInBounds == \A i \in DOMAIN splices : InBounds(splices[i])

PairwiseDisjoint ==
    \A i, j \in DOMAIN splices : i # j => ~ShareOffset(splices[i], splices[j])

\* The stored edits are non-empty, in bounds and pairwise disjoint.
CleanEdits ==
    /\ AllInBounds
    /\ \A i \in DOMAIN splices : NonEmpty(splices[i])
    /\ PairwiseDisjoint

StoredSet == {splices[i] : i \in DOMAIN splices}

\* splices' is splices with edit e inserted at index k, the stored edits and
\* their relative order unchanged.
InsertedAt(k, e) ==
    /\ Len(splices') = Len(splices) + 1
    /\ splices'[k] = e
    /\ \A i \in 1 .. (k - 1) : splices'[i] = splices[i]
    /\ \A i \in k .. Len(splices) : splices'[i + 1] = splices[i]

\* r occurs in t as a contiguous piece.
Contains(t, r) ==
    \E k \in 0 .. (Len(t) - Len(r)) : SubSeq(t, k + 1, k + Len(r)) = r

\* ------------------------------------------------------------------------
\* C1: the full render of clean edits
\* ------------------------------------------------------------------------

\* The reference result: walking the edits es in ascending start order from
\* offset `from`, the untouched text up to each edit, then its replacement,
\* and the untouched tail after the last one.
RECURSIVE Walk(_, _, _)
Walk(src, es, from) ==
    IF es = {} THEN SubSeq(src, from + 1, Len(src))
    ELSE LET e == CHOOSE x \in es : \A y \in es : x.start <= y.start
         IN  SubSeq(src, from + 1, e.start) \o e.value
                 \o Walk(src, es \ {e}, e.end)

\* C1: when the stored edits are non-empty, in bounds and pairwise disjoint,
\* in whatever order they were registered, to_string() returns the untouched
\* source text between consecutive edits interleaved with each edit's whole
\* replacement, followed by the untouched tail; with no edit it returns the
\* source unchanged.
C1_FullRender ==
    (IsToString /\ CleanEdits) =>
        /\ ~call.panicked
        /\ call.text = Walk(source, StoredSet, 0)
        /\ (splices = <<>> => call.text = source)

\* to_string() ran over two clean edits with untouched text between them.
C1_Witness ==
    /\ IsToString
    /\ CleanEdits
    /\ Len(splices) = 2
    /\ splices[1].end < splices[2].start
    /\ ~call.panicked
    /\ call.text # source

\* ------------------------------------------------------------------------
\* C2: windows over clean edits
\* ------------------------------------------------------------------------

\* The edit's range intersects the window [qs, qe).
Intersects(e, qs, qe) == e.start < qe /\ e.end > qs

Hit(qs, qe) == {i \in DOMAIN splices : Intersects(splices[i], qs, qe)}

SetMin(S) == CHOOSE x \in S : \A y \in S : x <= y
SetMax(S) == CHOOSE x \in S : \A y \in S : x >= y

\* What offset p of the source contributes: the whole replacement at the
\* start of an intersecting edit, nothing inside one, the source byte
\* elsewhere.
Contribution(p, qs, qe) ==
    IF \E i \in Hit(qs, qe) : splices[i].start = p
    THEN splices[CHOOSE i \in Hit(qs, qe) : splices[i].start = p].value
    ELSE IF \E i \in Hit(qs, qe) : Covers(splices[i], p)
    THEN <<>>
    ELSE <<source[p + 1]>>

RECURSIVE Contributions(_, _, _, _)
Contributions(p, hi, qs, qe) ==
    IF p >= hi THEN <<>>
    ELSE Contribution(p, qs, qe) \o Contributions(p + 1, hi, qs, qe)

\* The window widened to the whole range of every edit it intersects,
\* rendered offset by offset.
WindowRender(qs, qe) ==
    LET lo == SetMin({qs} \cup {splices[i].start : i \in Hit(qs, qe)})
        hi == SetMax({qe} \cup {splices[i].end : i \in Hit(qs, qe)})
    IN  Contributions(lo, hi, qs, qe)

\* C2: for clean edits and a window qs <= qe <= source.len(), slice(qs, qe)
\* returns every intersecting edit's whole replacement exactly once, also
\* when the window starts or ends strictly inside the edit, nothing of the
\* edits outside the window, and the untouched text of the window between,
\* before and after them.
C2_AtomicWindow ==
    (/\ call.op = "slice"
     /\ call.start <= call.end
     /\ call.end <= Len(source)
     /\ CleanEdits) =>
        /\ ~call.panicked
        /\ call.text = WindowRender(call.start, call.end)

\* slice ran on a window that starts strictly inside one edit and ends
\* strictly inside a second one.
C2_Witness ==
    /\ call.op = "slice"
    /\ call.end <= Len(source)
    /\ CleanEdits
    /\ Len(splices) = 2
    /\ splices[1].start < call.start /\ call.start < splices[1].end
    /\ splices[2].start < call.end /\ call.end < splices[2].end
    /\ call.text = splices[1].value \o splices[2].value

\* ------------------------------------------------------------------------
\* C3: overlap rejection
\* ------------------------------------------------------------------------

\* Some stored edit E has E.start <= start < E.end.
StartIsSpliced(start) == \E i \in DOMAIN splices : Covers(splices[i], start)

\* C3: a splice call panics, and inserts nothing, exactly when some stored
\* edit E has E.start <= start < E.end, wherever E is stored; otherwise it
\* is accepted, in particular when start only touches the end of an edit.
C3_OverlapRejection ==
    [][call'.op = "splice" =>
          /\ call'.panicked <=> StartIsSpliced(call'.start)
          /\ call'.panicked => splices' = splices
          /\ ~call'.panicked => Len(splices') = Len(splices) + 1]_vars

\* A splice call panicked on an edit that is not the first stored one.
C3_Witness ==
    /\ call.op = "splice"
    /\ call.panicked
    /\ Len(splices) = 2
    /\ ~Covers(splices[1], call.start)
    /\ Covers(splices[2], call.start)

\* ------------------------------------------------------------------------
\* C4: registration order
\* ------------------------------------------------------------------------

\* Registering the edits of seq from index i on, one splice call each, onto
\* the stored edits acc.
RECURSIVE RegisterAll(_, _, _)
RegisterAll(acc, seq, i) ==
    IF i > Len(seq) THEN [panicked |-> FALSE, splices |-> acc]
    ELSE LET r == splice_cow(acc, seq[i].start, seq[i].end, seq[i].value)
         IN  IF r.panicked THEN [panicked |-> TRUE, splices |-> acc]
             ELSE RegisterAll(r.splices, seq, i + 1)

\* Every permutation of the stored edits is accepted when registered on a new
\* Multisplice, and renders to the text the last to_string() returned, which
\* is also what registering them in ascending start order renders to.
OrderIndependent ==
    LET sorted == RegisterAll(<<>>, splices, 1)
    IN  /\ ~sorted.panicked
        /\ to_string(source, sorted.splices) = call.text
        /\ \A p \in Permutations(DOMAIN splices) :
               LET r == RegisterAll(<<>>, [i \in DOMAIN splices |-> splices[p[i]]], 1)
               IN  /\ ~r.panicked
                   /\ to_string(source, r.splices) = call.text

\* C4 as stated: for edits with 0 <= start <= end <= source.len() that
\* pairwise share no offset, every registration order is accepted and gives
\* the same to_string().
C4_AsStated ==
    (IsToString /\ AllInBounds /\ PairwiseDisjoint) => OrderIndependent

\* No stored edit starts inside the range [E.start, E.end) of another, and
\* no two start at the same offset.
StartsApart ==
    \A i, j \in DOMAIN splices :
        i # j => /\ ~Covers(splices[j], splices[i].start)
                 /\ splices[i].start # splices[j].start

\* C4 amended: for edits with 0 <= start <= end <= source.len() of which none
\* starts inside another's range [E.start, E.end) and no two start at the
\* same offset, every registration order is accepted and gives the same
\* to_string().
C4_OrderIndependence ==
    (IsToString /\ AllInBounds /\ StartsApart) => OrderIndependent

\* to_string() ran over two such edits, one of them a pure insertion.
C4_Witness ==
    /\ IsToString
    /\ AllInBounds
    /\ StartsApart
    /\ Len(splices) = 2
    /\ \E i \in DOMAIN splices : ~NonEmpty(splices[i])
    /\ \E i \in DOMAIN splices : NonEmpty(splices[i])
    /\ call.text # source

\* ------------------------------------------------------------------------
\* C5: the no-overlap invariant
\* ------------------------------------------------------------------------

\* C5: after any accepted splice calls with 0 <= start <= end <= source.len(),
\* no two distinct stored edits share an offset.
C5_NoOverlap == AllInBounds => PairwiseDisjoint

\* ------------------------------------------------------------------------
\* C6: sortedness
\* ------------------------------------------------------------------------

Sorted ==
    \A i, j \in DOMAIN splices : i < j => splices[i].start <= splices[j].start

\* C6: the stored edits are always in non-decreasing order of start, and an
\* accepted splice call grows the sequence by exactly the new edit, leaving
\* the stored edits and their relative order unchanged.
C6_Sorted ==
    /\ []Sorted
    /\ [][(call'.op = "splice" /\ ~call'.panicked) =>
            \E k \in 1 .. (Len(splices) + 1) : InsertedAt(k, NewEdit(call'))]_vars

\* An accepted splice call inserted its edit in front of a stored one.
C6_Witness ==
    /\ call.op = "splice"
    /\ ~call.panicked
    /\ Len(splices) = 2
    /\ splices[1] = NewEdit(call)
    /\ splices[1].start < splices[2].start

\* ------------------------------------------------------------------------
\* C7: the bounds check of slice
\* ------------------------------------------------------------------------

\* C7: slice(start, end) with end > source.len() panics whatever the start
\* and the stored edits are, returns no text and leaves the stored edits as
\* they were.
C7_SliceBounds ==
    [][(call'.op = "slice" /\ call'.end > Len(source)) =>
          /\ call'.panicked
          /\ call'.text = <<>>
          /\ splices' = splices
          /\ source' = source]_vars

\* slice panicked on an out-of-range end with a window start past that end
\* and edits stored.
C7_Witness ==
    /\ call.op = "slice"
    /\ call.end > Len(source)
    /\ call.start > call.end
    /\ call.panicked
    /\ Len(splices) > 0

\* ------------------------------------------------------------------------
\* C8: an edit whose end exceeds the source
\* ------------------------------------------------------------------------

\* C8: once an edit with start <= source.len() < end is stored, a render
\* slice(q, source.len()) with q <= start panics.
C8_EditBounds ==
    (/\ call.op = "slice"
     /\ call.end = Len(source)
     /\ \E i \in DOMAIN splices :
            /\ splices[i].start <= Len(source)
            /\ Len(source) < splices[i].end
            /\ call.start <= splices[i].start) => call.panicked

\* ------------------------------------------------------------------------
\* C9: ties of the sorted insert
\* ------------------------------------------------------------------------

\* C9 as stated: an accepted edit whose start equals the start of a stored
\* edit is placed immediately before that edit.
C9_AsStated ==
    [][(/\ call'.op = "splice"
        /\ ~call'.panicked
        /\ \E i \in DOMAIN splices : splices[i].start = call'.start) =>
            \E k \in DOMAIN splices :
                /\ splices[k].start = call'.start
                /\ InsertedAt(k, NewEdit(call'))]_vars

\* C9 amended: an accepted edit is placed immediately before the first
\* stored edit whose start is strictly greater than its own, so after every
\* stored edit with the same start, and at the end if there is none.
C9_TieBreak ==
    [][(call'.op = "splice" /\ ~call'.panicked) =>
            \E k \in 1 .. (Len(splices) + 1) :
                /\ InsertedAt(k, NewEdit(call'))
                /\ \A i \in 1 .. (k - 1) : splices[i].start <= call'.start
                /\ k <= Len(splices) => splices[k].start > call'.start]_vars

\* An accepted edit was placed right after a different stored edit with the
\* same start.
C9_Witness ==
    /\ call.op = "splice"
    /\ ~call.panicked
    /\ Len(splices) = 2
    /\ splices[2] = NewEdit(call)
    /\ splices[1].start = call.start
    /\ splices[1] # splices[2]

\* ------------------------------------------------------------------------
\* C10: pure insertions in the full render
\* ------------------------------------------------------------------------

\* A zero-length edit in bounds with a non-empty replacement whose offset
\* lies strictly inside no other stored edit.
PureInsertion(i) ==
    /\ splices[i].start = splices[i].end
    /\ splices[i].end <= Len(source)
    /\ splices[i].value # <<>>
    /\ \A j \in DOMAIN splices :
           j # i => ~(splices[j].start < splices[i].start
                      /\ splices[i].start < splices[j].end)

\* C10: to_string() contains the replacement of every pure insertion; with
\* that edit alone it is source[0..start] ++ r ++ source[start..].
C10_InsertionKept ==
    IsToString =>
        /\ \A i \in DOMAIN splices :
               PureInsertion(i) => Contains(call.text, splices[i].value)
        /\ (Len(splices) = 1 /\ PureInsertion(1)) =>
               call.text = SubSeq(source, 1, splices[1].start)
                             \o splices[1].value
                             \o SubSeq(source, splices[1].start + 1, Len(source))
====
